---- MODULE Spec2Model ----
(***************************************************************************)
(* A model of the string-analyzer service: the analyzer (analyzer.py), the *)
(* natural-language query translator and its validator (nlp_parser.py),    *)
(* and the HTTP service over the record store (main.py, models.py,         *)
(* schemas.py).  Text is modelled by TLA+ strings; a character is a string *)
(* of length one.                                                          *)
(***************************************************************************)
EXTENDS Integers, Sequences, FiniteSets, TLC

VARIABLES
    db,         \* the analyzed_strings table: a set of AnalyzedString rows
    now,        \* the clock that stamps created_at
    req,        \* the HTTP request handled last
    resp,       \* the HTTP response to it
    tpc,        \* translator harness: "idle", "translated", "validated"
    source,     \* translator harness: "text" (translated) or "params" (given)
    phrases,    \* translator harness: the phrases the query text was built from
    query,      \* translator harness: the query text
    writes,     \* translator harness: the dictionary writes of the translation
    filters,    \* translator harness: the FilterSet under validation
    conflict,   \* translator harness: the validator's result
    apc,        \* analyzer harness: "idle", "analyzed"
    input,      \* analyzer harness: the analyzed string
    props       \* analyzer harness: analyze_string's result

vars ==
    <<db, now, req, resp, tpc, source, phrases, query, writes, filters, conflict,
      apc, input, props>>
svcVars == <<db, now, req, resp>>
trVars == <<tpc, source, phrases, query, writes, filters, conflict>>
anVars == <<apc, input, props>>

(***************************************************************************)
(* Bounds of the model.                                                    *)
(***************************************************************************)
MaxLen == 3         \* longest string handed to the analyzer harness
MaxPhrases == 2     \* most phrases in a query text of the translator harness
MaxNum == 3         \* largest length bound in a directly supplied FilterSet
MaxParam == 2       \* largest length bound in a structured query of the service
MaxClock == 2       \* most records ever created in a run of the service

(***************************************************************************)
(* Text helpers: Python's str primitives.                                  *)
(***************************************************************************)
None == "None"

Char(s, i) == SubSeq(s, i, i)

Chars(s) == {Char(s, i) : i \in 1..Len(s)}

\* pat in s
Contains(s, pat) ==
    \E i \in 1..(Len(s) - Len(pat) + 1) : SubSeq(s, i, i + Len(pat) - 1) = pat

\* s[i:].startswith(pat), i 1-based
StartsAt(s, i, pat) ==
    /\ i + Len(pat) - 1 <= Len(s)
    /\ SubSeq(s, i, i + Len(pat) - 1) = pat

UpperLetters == "ABCDEFGHIJKLMNOPQRSTUVWXYZ"
LowerLetters == "abcdefghijklmnopqrstuvwxyz"
Digits == "0123456789"

IndexIn(alphabet, c) ==
    IF \E i \in 1..Len(alphabet) : Char(alphabet, i) = c
    THEN CHOOSE i \in 1..Len(alphabet) : Char(alphabet, i) = c
    ELSE 0

LowerChar(c) ==
    IF IndexIn(UpperLetters, c) > 0 THEN Char(LowerLetters, IndexIn(UpperLetters, c)) ELSE c

RECURSIVE Lower(_)
Lower(s) == IF s = "" THEN "" ELSE LowerChar(Char(s, 1)) \o Lower(SubSeq(s, 2, Len(s)))

RECURSIVE RemoveSpaces(_)
RemoveSpaces(s) ==
    IF s = "" THEN ""
    ELSE (IF Char(s, 1) = " " THEN "" ELSE Char(s, 1)) \o RemoveSpaces(SubSeq(s, 2, Len(s)))

RECURSIVE Reverse(_)
Reverse(s) == IF s = "" THEN "" ELSE Reverse(SubSeq(s, 2, Len(s))) \o Char(s, 1)

IsSpace(c) == c \in {" ", "\t", "\n", "\r"}

IsDigit(c) == IndexIn(Digits, c) > 0

IsLowerLetter(c) == IndexIn(LowerLetters, c) > 0

\* len(s.split()): the maximal runs of non-whitespace characters
SplitCount(s) ==
    Cardinality({i \in 1..Len(s) :
        /\ ~IsSpace(Char(s, i))
        /\ (i = 1 \/ IsSpace(Char(s, i - 1)))})

RECURSIVE StringsOfLen(_, _)
StringsOfLen(alphabet, n) ==
    IF n = 0 THEN {""}
    ELSE {s \o c : s \in StringsOfLen(alphabet, n - 1), c \in alphabet}

StringsUpTo(alphabet, n) == UNION {StringsOfLen(alphabet, k) : k \in 0..n}

(***************************************************************************)
(* analyzer.py                                                             *)
(***************************************************************************)
\* hashlib.sha256(value.encode()).hexdigest(): a collision-free digest, kept
\* as a tagged value that is no string the service ever handles as a value.
Sha256(value) == <<"sha256", value>>

EmptyMap == [c \in {} |-> 0]

\* the loop with the count set to 1 instead of incremented
RECURSIVE FrequencyLoop_no_increment(_, _, _)
FrequencyLoop_no_increment(value, i, map) ==
    IF i > Len(value) THEN map
    ELSE FrequencyLoop_no_increment(value, i + 1,
             [c \in (DOMAIN map) \cup {Char(value, i)} |->
                 IF c = Char(value, i) THEN 1 ELSE map[c]])

\* the loop of analyzer.py lines 31-33, from character i on
RECURSIVE FrequencyLoop(_, _, _)
FrequencyLoop(value, i, map) ==
    IF i > Len(value) THEN map
    ELSE LET char == Char(value, i)
             old == IF char \in DOMAIN map THEN map[char] ELSE 0
         IN  FrequencyLoop(value, i + 1,
                 [c \in (DOMAIN map) \cup {char} |-> IF c = char THEN old + 1 ELSE map[c]])

\* cleaned without .lower()
cleaned_case_sensitive(value) == RemoveSpaces(value)

cleaned(value) == Lower(RemoveSpaces(value))

analyze_string(value) ==
    [ length |-> Len(value),
      is_palindrome |-> (cleaned(value) = Reverse(cleaned(value))),
      unique_characters |-> Cardinality(Chars(value)),
      word_count |-> SplitCount(value),
      sha256_hash |-> Sha256(value),
      character_frequency_map |-> FrequencyLoop(value, 1, EmptyMap) ]

Alphabet == {"a", "b", "A", " ", ".", "\t"}

AnalyzerExamples == {"racecar", "Race Car", "race.car", "hello world", "    "}

AnalyzerInputs == StringsUpTo(Alphabet, MaxLen) \cup AnalyzerExamples

(***************************************************************************)
(* nlp_parser.py                                                           *)
(***************************************************************************)
\* int(m.group(1)) for the greedy (\d+) that starts at position i
RECURSIVE DigitsValue(_, _, _)
DigitsValue(s, i, acc) ==
    IF i <= Len(s) /\ IsDigit(Char(s, i))
    THEN DigitsValue(s, i + 1, acc * 10 + (IndexIn(Digits, Char(s, i)) - 1))
    ELSE acc

\* re.search(prefix + r'(\d+)', s): the positions where the pattern matches
NumberMatches(s, prefix) ==
    {i \in 1..Len(s) :
        /\ StartsAt(s, i, prefix)
        /\ i + Len(prefix) <= Len(s)
        /\ IsDigit(Char(s, i + Len(prefix)))}

\* the match object as a sequence: << >> for no match, else <<int(group(1))>>
\* of the leftmost match
NumberSearch(s, prefix) ==
    IF NumberMatches(s, prefix) = {} THEN << >>
    ELSE LET i == CHOOSE k \in NumberMatches(s, prefix) :
                      \A j \in NumberMatches(s, prefix) : k <= j
         IN  << DigitsValue(s, i + Len(prefix), 0) >>

\* r'contain(?:ing)?(?: the)?(?: letter)? ([a-z])': what the three optional
\* groups and the space can consume, in the order the backtracking matcher
\* tries them (each group greedy, the last one given up first)
LetterPrefixes ==
    << "containing the letter ", "containing the ", "containing letter ", "containing ",
       "contain the letter ", "contain the ", "contain letter ", "contain " >>

LetterPrefixMatches(s, i, k) ==
    /\ StartsAt(s, i, LetterPrefixes[k])
    /\ i + Len(LetterPrefixes[k]) <= Len(s)
    /\ IsLowerLetter(Char(s, i + Len(LetterPrefixes[k])))

LetterMatches(s) ==
    {i \in 1..Len(s) : \E k \in 1..Len(LetterPrefixes) : LetterPrefixMatches(s, i, k)}

\* the match object as a sequence: << >> for no match, else <<group(1)>> of
\* the leftmost match
LetterSearch(s) ==
    IF LetterMatches(s) = {} THEN << >>
    ELSE LET i == CHOOSE p \in LetterMatches(s) : \A j \in LetterMatches(s) : p <= j
             k == CHOOSE a \in 1..Len(LetterPrefixes) :
                      /\ LetterPrefixMatches(s, i, a)
                      /\ \A b \in 1..(a - 1) : ~LetterPrefixMatches(s, i, b)
         IN  << Char(s, i + Len(LetterPrefixes[k])) >>

\* Each rule yields the dictionary writes it performs: <<rule, key, value>>.
WordCountRule(q) ==
    IF Contains(q, "single word") \/ Contains(q, "one word")
    THEN << <<"word_count_1", "word_count", 1>> >>
    ELSE IF Contains(q, "two word") \/ Contains(q, "2 word")
    THEN << <<"word_count_2", "word_count", 2>> >>
    ELSE IF Contains(q, "three word") \/ Contains(q, "3 word")
    THEN << <<"word_count_3", "word_count", 3>> >>
    ELSE << >>

PalindromeRule(q) ==
    IF Contains(q, "palindrom") THEN << <<"palindrome", "is_palindrome", TRUE>> >> ELSE << >>

LongerThanRule(q) ==
    IF NumberSearch(q, "longer than ") # << >>
    THEN << <<"longer_than", "min_length", NumberSearch(q, "longer than ")[1] + 1>> >>
    ELSE << >>

ShorterThanRule(q) ==
    IF NumberSearch(q, "shorter than ") # << >>
    THEN << <<"shorter_than", "max_length", NumberSearch(q, "shorter than ")[1] - 1>> >>
    ELSE << >>

AtLeastRule(q) ==
    IF NumberSearch(q, "at least ") # << >>
    THEN << <<"at_least", "min_length", NumberSearch(q, "at least ")[1]>> >>
    ELSE << >>

AtMostRule(q) ==
    IF NumberSearch(q, "at most ") # << >>
    THEN << <<"at_most", "max_length", NumberSearch(q, "at most ")[1]>> >>
    ELSE << >>

LetterRule(q) ==
    IF LetterSearch(q) # << >>
    THEN << <<"letter_match", "contains_character", LetterSearch(q)[1]>> >>
    ELSE << >>

FirstVowelRule(q) ==
    IF Contains(q, "first vowel")
    THEN << <<"first_vowel", "contains_character", "a">> >> ELSE << >>

LastVowelRule(q) ==
    IF Contains(q, "last vowel")
    THEN << <<"last_vowel", "contains_character", "u">> >> ELSE << >>

\* parse_natural_language_query with the two vowel rules and the two
\* min_length rules in the other order
ParseWrites_reordered(text) ==
    LET query_lower == Lower(text)
    IN  WordCountRule(query_lower) \o PalindromeRule(query_lower)
        \o AtLeastRule(query_lower) \o ShorterThanRule(query_lower)
        \o LongerThanRule(query_lower) \o AtMostRule(query_lower)
        \o LetterRule(query_lower) \o LastVowelRule(query_lower)
        \o FirstVowelRule(query_lower)

\* the writes of parse_natural_language_query, in program order
ParseWrites(text) ==
    LET query_lower == Lower(text)
    IN  WordCountRule(query_lower) \o PalindromeRule(query_lower)
        \o LongerThanRule(query_lower) \o ShorterThanRule(query_lower)
        \o AtLeastRule(query_lower) \o AtMostRule(query_lower)
        \o LetterRule(query_lower) \o FirstVowelRule(query_lower)
        \o LastVowelRule(query_lower)

\* filters[key] = value
Put(map, key, value) ==
    [k \in (DOMAIN map) \cup {key} |-> IF k = key THEN value ELSE map[k]]

RECURSIVE ApplyWrites(_, _)
ApplyWrites(map, ws) ==
    IF ws = << >> THEN map ELSE ApplyWrites(Put(map, Head(ws)[2], Head(ws)[3]), Tail(ws))

parse_natural_language_query(text) == ApplyWrites(EmptyMap, ParseWrites(text))

ConflictMessage ==
    "Conflicting length constraints: min_length cannot be greater than max_length"

\* validate_parsed_filters with >= for >
validate_parsed_filters_strict(fs) ==
    IF /\ "min_length" \in DOMAIN fs
       /\ "max_length" \in DOMAIN fs
       /\ fs["min_length"] >= fs["max_length"]
    THEN ConflictMessage
    ELSE None

validate_parsed_filters(fs) ==
    IF /\ "min_length" \in DOMAIN fs
       /\ "max_length" \in DOMAIN fs
       /\ fs["min_length"] > fs["max_length"]
    THEN ConflictMessage
    ELSE None

\* the keys of a FilterSet
Fields == {"word_count", "is_palindrome", "min_length", "max_length", "contains_character"}

Restrict(f, D) == [k \in D |-> f[k]]

(***************************************************************************)
(* schemas.py, models.py                                                   *)
(***************************************************************************)
\* str.strip() leaves nothing
IsBlank(v) == \A i \in 1..Len(v) : IsSpace(Char(v, i))

\* StringInput.value_must_not_be_empty accepts the value
ValidStringInput(v) == ~(v = "" \/ IsBlank(v))

\* AnalyzedString.to_dict
to_dict(row) ==
    [ id |-> row.id,
      value |-> row.value,
      properties |->
          [ length |-> row.length,
            is_palindrome |-> row.is_palindrome,
            unique_characters |-> row.unique_characters,
            word_count |-> row.word_count,
            sha256_hash |-> row.sha256_hash,
            character_frequency_map |-> row.character_frequency_map ],
      created_at |-> row.created_at ]

\* db.query(AnalyzedString).filter(AnalyzedString.value == value).first()
FirstByValue(dbv, value) ==
    IF \E row \in dbv : row.value = value
    THEN << CHOOSE row \in dbv : row.value = value >>
    ELSE << >>

(***************************************************************************)
(* main.py: the handlers.  Each takes the table and the request's inputs   *)
(* and yields the table after the request and the response.                *)
(***************************************************************************)
\* an optional value of a response: None, or the value
Null == << >>
Some(x) == <<x>>

\* no JSON body
NoBody == [k \in {} |-> 0]

Reply(dbv, status, body) == [db |-> dbv, status |-> status, body |-> body]

HTTPException(dbv, status, detail) == Reply(dbv, status, [detail |-> detail])

root(dbv) == Reply(dbv, 200, [message |-> "String Analyzer Service API"])

health_check(dbv) == Reply(dbv, 200, [status |-> "healthy"])

\* create_string without its look-up of the value
create_string_unchecked(dbv, t, value) ==
    IF \E row \in dbv : row.value = value
    THEN HTTPException(dbv, 500, "Internal server error")
    ELSE LET properties == analyze_string(value)
         IN  Reply(dbv \cup {[ id |-> properties.sha256_hash,
                               value |-> value,
                               length |-> properties.length,
                               is_palindrome |-> properties.is_palindrome,
                               unique_characters |-> properties.unique_characters,
                               word_count |-> properties.word_count,
                               sha256_hash |-> properties.sha256_hash,
                               character_frequency_map |-> properties.character_frequency_map,
                               created_at |-> t ]}, 201, NoBody)

create_string(dbv, t, value) ==
    IF FirstByValue(dbv, value) # << >>
    THEN HTTPException(dbv, 409, "String already exists in the system")
    ELSE LET properties == analyze_string(value)
             db_string ==
                 [ id |-> properties.sha256_hash,
                   value |-> value,
                   length |-> properties.length,
                   is_palindrome |-> properties.is_palindrome,
                   unique_characters |-> properties.unique_characters,
                   word_count |-> properties.word_count,
                   sha256_hash |-> properties.sha256_hash,
                   character_frequency_map |-> properties.character_frequency_map,
                   created_at |-> t ]
         IN  IF \E row \in dbv : row.id = db_string.id \/ row.value = db_string.value
             THEN \* the commit violates the primary key or the unique column
                  HTTPException(dbv, 500, "Internal server error")
             ELSE Reply(dbv \cup {db_string}, 201, to_dict(db_string))

get_string(dbv, string_value) ==
    LET db_string == FirstByValue(dbv, string_value)
    IN  IF db_string = << >>
        THEN HTTPException(dbv, 404, "String does not exist in the system")
        ELSE Reply(dbv, 200, to_dict(db_string[1]))

\* Query(None, ge=0) and Query(None, min_length=1, max_length=1)
ValidFilterParams(params) ==
    /\ \A k \in {"min_length", "max_length", "word_count"} \cap DOMAIN params : params[k] >= 0
    /\ "contains_character" \in DOMAIN params => Len(params["contains_character"]) = 1

\* the rows the chained query.filter calls of both list handlers keep
SqlFilter(dbv, fs) ==
    {row \in dbv :
        /\ "is_palindrome" \in DOMAIN fs => row.is_palindrome = fs["is_palindrome"]
        /\ "min_length" \in DOMAIN fs => row.length >= fs["min_length"]
        /\ "max_length" \in DOMAIN fs => row.length <= fs["max_length"]
        /\ "word_count" \in DOMAIN fs => row.word_count = fs["word_count"]}

\* [s for s in rows if char in s.value]
CharFilter(rows, char) == {row \in rows : Contains(row.value, char)}

get_all_strings(dbv, params) ==
    IF ~ValidFilterParams(params)
    THEN HTTPException(dbv, 422, "validation error")
    ELSE LET filters_applied == params
             results == SqlFilter(dbv, params)
         IN  IF "contains_character" \in DOMAIN params
             THEN LET filtered_strings == CharFilter(results, params["contains_character"])
                  IN  Reply(dbv, 200,
                          [ data |-> {to_dict(row) : row \in filtered_strings},
                            count |-> Cardinality(filtered_strings),
                            filters_applied |-> Some(filters_applied) ])
             ELSE Reply(dbv, 200,
                      [ data |-> {to_dict(row) : row \in results},
                        count |-> Cardinality(results),
                        filters_applied |->
                            IF DOMAIN filters_applied # {} THEN Some(filters_applied)
                            ELSE Null ])

filter_by_natural_language(dbv, params) ==
    IF "query" \notin DOMAIN params
    THEN HTTPException(dbv, 422, "validation error")
    ELSE LET parsed_filters == parse_natural_language_query(params["query"])
             validation_error == validate_parsed_filters(parsed_filters)
             rows == SqlFilter(dbv, parsed_filters)
             results == IF "contains_character" \in DOMAIN parsed_filters
                        THEN CharFilter(rows, parsed_filters["contains_character"])
                        ELSE rows
         IN  IF DOMAIN parsed_filters = {}
             THEN HTTPException(dbv, 400, "Unable to parse natural language query")
             ELSE IF validation_error # None
             THEN HTTPException(dbv, 422,
                      "Query parsed but resulted in conflicting filters: " \o validation_error)
             ELSE Reply(dbv, 200,
                      [ data |-> {to_dict(row) : row \in results},
                        count |-> Cardinality(results),
                        interpreted_query |->
                            [original |-> params["query"], parsed_filters |-> parsed_filters] ])

\* delete_string with a look-up that ignores the value
delete_string_unfiltered(dbv, string_value) ==
    IF dbv = {}
    THEN HTTPException(dbv, 404, "String does not exist in the system")
    ELSE Reply(dbv \ {CHOOSE row \in dbv : TRUE}, 204, NoBody)

delete_string(dbv, string_value) ==
    LET db_string == FirstByValue(dbv, string_value)
    IN  IF db_string = << >>
        THEN HTTPException(dbv, 404, "String does not exist in the system")
        ELSE Reply(dbv \ {db_string[1]}, 204, NoBody)

(***************************************************************************)
(* main.py: the route table, in the order the decorators register it.  A   *)
(* path is the sequence of its segments.                                   *)
(***************************************************************************)
PathParam == "{string_value}"

FilterPath == "filter-by-natural-language"

Routes ==
    << [method |-> "GET", path |-> << >>, endpoint |-> "root"],
       [method |-> "POST", path |-> <<"strings">>, endpoint |-> "create_string"],
       [method |-> "GET", path |-> <<"strings", PathParam>>, endpoint |-> "get_string"],
       [method |-> "GET", path |-> <<"strings">>, endpoint |-> "get_all_strings"],
       [method |-> "GET", path |-> <<"strings", FilterPath>>,
        endpoint |-> "filter_by_natural_language"],
       [method |-> "DELETE", path |-> <<"strings", PathParam>>, endpoint |-> "delete_string"],
       [method |-> "GET", path |-> <<"health">>, endpoint |-> "health_check"] >>

\* the route's path pattern matches the whole path
PathMatches(route, path) ==
    /\ Len(route.path) = Len(path)
    /\ \A i \in 1..Len(path) :
           IF route.path[i] = PathParam THEN path[i] # "" ELSE route.path[i] = path[i]

FullMatches(method, path) ==
    {i \in 1..Len(Routes) : PathMatches(Routes[i], path) /\ Routes[i].method = method}

\* the router takes the first route that matches path and method
Dispatch(method, path) ==
    IF FullMatches(method, path) # {}
    THEN Routes[CHOOSE i \in FullMatches(method, path) :
                    \A j \in FullMatches(method, path) : i <= j].endpoint
    ELSE IF \E i \in 1..Len(Routes) : PathMatches(Routes[i], path)
    THEN "method_not_allowed"
    ELSE "not_found"

\* the application's answer to one request
Handle(dbv, t, r) ==
    LET endpoint == Dispatch(r.method, r.path)
    IN  CASE endpoint = "root" -> root(dbv)
          [] endpoint = "health_check" -> health_check(dbv)
          [] endpoint = "create_string" ->
                 IF ValidStringInput(r.body.value)
                 THEN create_string(dbv, t, r.body.value)
                 ELSE HTTPException(dbv, 422, "value cannot be empty")
          [] endpoint = "get_string" -> get_string(dbv, r.path[2])
          [] endpoint = "get_all_strings" -> get_all_strings(dbv, r.params)
          [] endpoint = "filter_by_natural_language" ->
                 filter_by_natural_language(dbv, r.params)
          [] endpoint = "delete_string" -> delete_string(dbv, r.path[2])
          [] endpoint = "method_not_allowed" -> HTTPException(dbv, 405, "Method Not Allowed")
          [] OTHER -> HTTPException(dbv, 404, "Not Found")

(***************************************************************************)
(* The service: one action per kind of request.                            *)
(***************************************************************************)
ServiceValues == {"", " ", "a", "Aa", "a b", FilterPath}

ServiceQueries ==
    { "all single word palindromic strings", "strings containing the letter A",
      "longer than 2 and at most 1", "at least 2 characters", "gibberish query" }

QueryParams ==
    { Restrict(f, D) :
        f \in [ is_palindrome : BOOLEAN, min_length : (-1)..MaxParam,
                max_length : 0..MaxParam, word_count : {2},
                contains_character : {"a", "A"} ],
        D \in SUBSET Fields }

NoParams == EmptyMap

NoRequest == [method |-> None, path |-> << >>, params |-> NoParams, body |-> NoBody]

NoResponse == [endpoint |-> None, status |-> 0, body |-> NoBody]

\* the application takes request r and answers it
Serve(r) ==
    LET out == Handle(db, now + 1, r)
    IN  /\ req.method = None
        /\ req' = r
        /\ db' = out.db
        /\ resp' = [endpoint |-> Dispatch(r.method, r.path),
                    status |-> out.status, body |-> out.body]
        /\ now' = IF out.db \subseteq db THEN now ELSE now + 1
        /\ UNCHANGED <<trVars, anVars>>

\* the clock is capped: no record is created once it shows MaxClock
PostStrings(value) ==
    LET r == [method |-> "POST", path |-> <<"strings">>, params |-> NoParams,
              body |-> [value |-> value]]
    IN  /\ now < MaxClock \/ Handle(db, now + 1, r).db = db
        /\ Serve(r)

GetPlain(path) ==
    Serve([method |-> "GET", path |-> path, params |-> NoParams, body |-> NoBody])

GetStrings(params) ==
    Serve([method |-> "GET", path |-> <<"strings">>, params |-> params, body |-> NoBody])

GetNaturalLanguage(params) ==
    Serve([method |-> "GET", path |-> <<"strings", FilterPath>>, params |-> params,
           body |-> NoBody])

DeleteStrings(value) ==
    Serve([method |-> "DELETE", path |-> <<"strings", value>>, params |-> NoParams,
           body |-> NoBody])

\* the response is sent and the application waits for the next request
Complete ==
    /\ req.method # None
    /\ req' = NoRequest
    /\ resp' = NoResponse
    /\ UNCHANGED <<db, now, trVars, anVars>>

Next ==
    \/ Complete
    \/ \E value \in ServiceValues : PostStrings(value)
    \/ \E path \in {<< >>, <<"health">>} \cup {<<"strings", v>> : v \in ServiceValues \ {""}} :
           GetPlain(path)
    \/ \E params \in QueryParams : GetStrings(params)
    \/ \E params \in {NoParams} \cup {[query |-> q] : q \in ServiceQueries} :
           GetNaturalLanguage(params)
    \/ \E value \in ServiceValues \ {""} : DeleteStrings(value)

(***************************************************************************)
(* The translator harness: a query text is built from phrases and          *)
(* translated, or a FilterSet is given directly; then it is validated.     *)
(***************************************************************************)
Phrases ==
    { "single word", "one word", "two word", "2 word", "three word", "3 word",
      "Palindromic", "longer than 10", "at least 3", "shorter than 0", "at most 2",
      "containing the letter z", "contain x", "containing words",
      "contain the first vowel", "first vowel", "last vowel",
      "gibberish", "Strings" }

ExampleQueries ==
    { "all single word palindromic strings",
      "strings longer than 10 characters",
      "strings containing the letter z",
      "palindromic strings that contain the first vowel",
      "gibberish query" }

PhraseSeqs ==
    UNION {[1..n -> Phrases] : n \in 0..MaxPhrases} \cup {<<e>> : e \in ExampleQueries}

RECURSIVE Join(_)
Join(ps) ==
    IF ps = << >> THEN ""
    ELSE IF Len(ps) = 1 THEN ps[1]
    ELSE ps[1] \o " " \o Join(Tail(ps))

FilterSets ==
    { Restrict(f, D) :
        f \in [ word_count : 1..2, is_palindrome : BOOLEAN, min_length : 0..MaxNum,
                max_length : (-1)..MaxNum, contains_character : {"a"} ],
        D \in SUBSET Fields }

Translate(ps) ==
    /\ tpc = "idle"
    /\ tpc' = "translated"
    /\ source' = "text"
    /\ phrases' = ps
    /\ query' = Join(ps)
    /\ writes' = ParseWrites(Join(ps))
    /\ filters' = parse_natural_language_query(Join(ps))
    /\ UNCHANGED <<conflict, svcVars, anVars>>

Supply(fs) ==
    /\ tpc = "idle"
    /\ tpc' = "translated"
    /\ source' = "params"
    /\ filters' = fs
    /\ UNCHANGED <<phrases, query, writes, conflict, svcVars, anVars>>

Validate ==
    /\ tpc = "translated"
    /\ tpc' = "validated"
    /\ conflict' = validate_parsed_filters(filters)
    /\ UNCHANGED <<source, phrases, query, writes, filters, svcVars, anVars>>

NextTranslator ==
    \/ \E ps \in PhraseSeqs : Translate(ps)
    \/ \E fs \in FilterSets : Supply(fs)
    \/ Validate

(***************************************************************************)
(* The analyzer harness: a string is drawn and analyzed.                   *)
(***************************************************************************)
Analyze(value) ==
    /\ apc = "idle"
    /\ apc' = "analyzed"
    /\ input' = value
    /\ props' = analyze_string(value)
    /\ UNCHANGED <<svcVars, trVars>>

InitAll ==
    /\ db = {}
    /\ now = 0
    /\ req = NoRequest
    /\ resp = NoResponse
    /\ tpc = "idle"
    /\ source = None
    /\ phrases = <<>>
    /\ query = ""
    /\ writes = <<>>
    /\ filters = EmptyMap
    /\ conflict = None
    /\ apc = "idle"
    /\ input = ""
    /\ props = [length |-> 0]

NextAnalyzer == \E value \in AnalyzerInputs : Analyze(value)

Spec == InitAll /\ [][Next]_vars

SpecAnalyzer == InitAll /\ [][NextAnalyzer]_vars

SpecTranslator == InitAll /\ [][NextTranslator]_vars

(***************************************************************************)
(* Properties of the service (Spec).                                       *)
(***************************************************************************)
\* the request in flight asks for the natural-language filter
NaturalLanguageRequest ==
    /\ req.method = "GET"
    /\ req.path = <<"strings", FilterPath>>
    /\ "query" \in DOMAIN req.params

\* the request in flight is a structured filter the parameter checks accept
StructuredRequest ==
    /\ req.method = "GET"
    /\ req.path = <<"strings">>
    /\ \A k \in {"min_length", "max_length", "word_count"} \cap DOMAIN req.params :
           req.params[k] >= 0

\* the record satisfies every constraint present in the FilterSet
Satisfies(record, fs) ==
    /\ "is_palindrome" \in DOMAIN fs => record.properties.is_palindrome = fs["is_palindrome"]
    /\ "min_length" \in DOMAIN fs => ~(Len(record.value) < fs["min_length"])
    /\ "max_length" \in DOMAIN fs => ~(Len(record.value) > fs["max_length"])
    /\ "word_count" \in DOMAIN fs => record.properties.word_count = fs["word_count"]
    /\ "contains_character" \in DOMAIN fs =>
           \E i \in 1..Len(record.value) : Char(record.value, i) = fs["contains_character"]

\* the response lists exactly the stored records that satisfy the FilterSet
ListsExactly(fs) ==
    /\ resp.status = 200
    /\ "data" \in DOMAIN resp.body
    /\ resp.body.data = {record \in {to_dict(row) : row \in db} : Satisfies(record, fs)}
    /\ resp.body.count = Cardinality(resp.body.data)

\* C1: a GET of /strings/filter-by-natural-language with a query text is
\* handled by the natural-language filter, never as a lookup of the value
\* "filter-by-natural-language".
C1_NaturalLanguageRouted ==
    NaturalLanguageRequest =>
        /\ resp.endpoint = "filter_by_natural_language"
        /\ resp.endpoint # "get_string"
        /\ resp.status \in {200, 400, 422}

\* C5: a natural-language query is answered 400 exactly when its translation
\* is empty, 422 exactly when the translation is not empty and the validator
\* reports a conflict, and with a result list otherwise; neither failure
\* carries a result list.
C5_ThreeOutcomes ==
    NaturalLanguageRequest =>
        LET fs == parse_natural_language_query(req.params["query"])
            unparseable == DOMAIN fs = {}
            conflicting == ~unparseable /\ validate_parsed_filters(fs) # None
        IN  /\ resp.status = 400 <=> unparseable
            /\ resp.status = 422 <=> conflicting
            /\ (~unparseable /\ ~conflicting) =>
                   (resp.status = 200 /\ "data" \in DOMAIN resp.body)
            /\ (unparseable \/ conflicting) => "data" \notin DOMAIN resp.body

\* the structured filter returns exactly the matching records
StructuredFilterExact == StructuredRequest => ListsExactly(req.params)

\* the natural-language filter returns exactly the matching records
NaturalLanguageFilterExact ==
    NaturalLanguageRequest =>
        LET fs == parse_natural_language_query(req.params["query"])
        IN  (DOMAIN fs # {} /\ validate_parsed_filters(fs) = None) => ListsExactly(fs)

\* C6: for a FilterSet given as structured parameters or produced by the
\* translator, the response lists exactly the stored records that satisfy
\* every present constraint, and count is their number.
C6_FilterExact == StructuredFilterExact /\ NaturalLanguageFilterExact

\* at most one record per value, each keyed by the hash of its value
StoreKeyed ==
    /\ \A r1, r2 \in db : (r1.value = r2.value \/ r1.id = r2.id) => r1 = r2
    /\ \A row \in db : row.id = Sha256(row.value) /\ row.sha256_hash = row.id

Stored(v) == \E row \in db : row.value = v

\* the step answers a create request for value v
CreateStep(v) ==
    /\ req.method = None
    /\ req'.method = "POST"
    /\ req'.body = [value |-> v]

AddsOneRecord(v) ==
    /\ db \subseteq db'
    /\ Cardinality(db' \ db) = 1
    /\ \A row \in db' \ db : row.value = v
    /\ resp'.status = 201

\* C4 as stated: one record per value, keyed by its hash; a create of a
\* stored value is answered 409 and changes nothing; a create of any value
\* not stored adds exactly one record for it.
C4_CreateAddsOrConflicts ==
    /\ []StoreKeyed
    /\ [][\A v \in ServiceValues : CreateStep(v) =>
             IF Stored(v) THEN resp'.status = 409 /\ db' = db
             ELSE AddsOneRecord(v)]_vars

\* C4, amended: one record per value, keyed by its hash; a create of a stored
\* value is answered 409 and changes nothing; a create of a value not stored
\* adds exactly one record for it if the value has a non-whitespace
\* character, and is otherwise refused (422) and changes nothing.
C4_CreateValidAddsOrConflicts ==
    /\ []StoreKeyed
    /\ [][\A v \in ServiceValues : CreateStep(v) =>
             IF Stored(v) THEN resp'.status = 409 /\ db' = db
             ELSE IF \E i \in 1..Len(v) : Char(v, i) \notin {" ", "\t", "\n", "\r"}
             THEN AddsOneRecord(v)
             ELSE resp'.status = 422 /\ db' = db]_vars

\* a create of a stored value was refused while the store holds two records
C4_Witness ==
    /\ req.method = "POST"
    /\ resp.status = 409
    /\ Cardinality(db) = 2
    /\ \E row \in db : row.value = req.body.value

\* C8: a stored record stays in the store unchanged until a delete request
\* for its value removes it; no other request changes or removes it, and a
\* delete of an absent value is answered 404 and changes nothing.
C8_RecordsImmutable ==
    [][ /\ \A row \in db :
               \/ row \in db'
               \/ /\ req'.method = "DELETE"
                  /\ req'.path = <<"strings", row.value>>
                  /\ resp'.status = 204
        /\ req'.method = "DELETE" =>
               IF Stored(req'.path[2])
               THEN db' = {row \in db : row.value # req'.path[2]}
               ELSE resp'.status = 404 /\ db' = db
        /\ req'.method \in {"GET", None} => db' = db
        /\ req'.method = "POST" => db \subseteq db'
      ]_vars

\* a delete of an absent value was answered 404 next to two stored records
C8_Witness ==
    /\ req.method = "DELETE"
    /\ resp.status = 404
    /\ Cardinality(db) = 2
    /\ \A row \in db : row.value # req.path[2]

(***************************************************************************)
(* Properties of the translator (SpecTranslator).                          *)
(***************************************************************************)
Has(p) == \E i \in 1..Len(phrases) : phrases[i] = p

HasAny(S) == \E i \in 1..Len(phrases) : phrases[i] \in S

Translated == tpc # "idle" /\ source = "text"

FieldIs(f, k, v) == k \in DOMAIN f /\ f[k] = v

Wrote(rule) == \E i \in 1..Len(writes) : writes[i][1] = rule

OneWordPhrases == {"single word", "one word", "all single word palindromic strings"}
TwoWordPhrases == {"two word", "2 word"}
ThreeWordPhrases == {"three word", "3 word"}
LongerThanPhrases == {"longer than 10", "strings longer than 10 characters"}
FirstVowelPhrases ==
    {"first vowel", "contain the first vowel", "palindromic strings that contain the first vowel"}

\* the letter the letter pattern picks up in a phrase, for the phrases it matches
PatternLetter ==
    [ p \in { "containing the letter z", "strings containing the letter z", "contain x",
              "containing words", "contain the first vowel",
              "palindromic strings that contain the first vowel" } |->
        CASE p \in {"containing the letter z", "strings containing the letter z"} -> "z"
          [] p = "contain x" -> "x"
          [] p = "containing words" -> "w"
          [] OTHER -> "f" ]

FirstPatternPhrase ==
    phrases[CHOOSE i \in 1..Len(phrases) :
        /\ phrases[i] \in DOMAIN PatternLetter
        /\ \A j \in 1..(i - 1) : phrases[j] \notin DOMAIN PatternLetter]

\* the fields every rule but the word-count rule decides: the later rule wins
LaterRuleWinsOutsideWordCount ==
    /\ IF Has("at least 3") THEN FieldIs(filters, "min_length", 3)
       ELSE IF HasAny(LongerThanPhrases) THEN FieldIs(filters, "min_length", 11)
       ELSE "min_length" \notin DOMAIN filters
    /\ IF Has("at most 2") THEN FieldIs(filters, "max_length", 2)
       ELSE IF Has("shorter than 0") THEN FieldIs(filters, "max_length", -1)
       ELSE "max_length" \notin DOMAIN filters
    /\ IF Has("last vowel") THEN FieldIs(filters, "contains_character", "u")
       ELSE IF HasAny(FirstVowelPhrases) THEN FieldIs(filters, "contains_character", "a")
       ELSE IF HasAny(DOMAIN PatternLetter)
            THEN FieldIs(filters, "contains_character", PatternLetter[FirstPatternPhrase])
       ELSE "contains_character" \notin DOMAIN filters
    /\ HasAny({"Palindromic"} \cup {e \in ExampleQueries : Contains(e, "palindrom")})
           <=> FieldIs(filters, "is_palindrome", TRUE)

\* every rule but the word-count ones is evaluated whatever the others did
EvaluatedUnconditionally ==
    /\ HasAny(LongerThanPhrases) <=> Wrote("longer_than")
    /\ Has("shorter than 0") <=> Wrote("shorter_than")
    /\ Has("at least 3") <=> Wrote("at_least")
    /\ Has("at most 2") <=> Wrote("at_most")
    /\ HasAny(DOMAIN PatternLetter) <=> Wrote("letter_match")
    /\ HasAny(FirstVowelPhrases) <=> Wrote("first_vowel")
    /\ Has("last vowel") <=> Wrote("last_vowel")

\* C2 as stated: every rule is evaluated and, of two matching rules for one
\* field, the later in the rule order decides the field; for the word count
\* that is three/3 word over two/2 word over single/one word.
C2_LaterRuleAlwaysWins ==
    Translated =>
        /\ LaterRuleWinsOutsideWordCount
        /\ EvaluatedUnconditionally
        /\ HasAny(OneWordPhrases) <=> Wrote("word_count_1")
        /\ HasAny(TwoWordPhrases) <=> Wrote("word_count_2")
        /\ HasAny(ThreeWordPhrases) <=> Wrote("word_count_3")
        /\ IF HasAny(ThreeWordPhrases) THEN FieldIs(filters, "word_count", 3)
           ELSE IF HasAny(TwoWordPhrases) THEN FieldIs(filters, "word_count", 2)
           ELSE IF HasAny(OneWordPhrases) THEN FieldIs(filters, "word_count", 1)
           ELSE "word_count" \notin DOMAIN filters

\* C2, amended: the word-count phrases are an if/elif chain, so the first
\* matching one in the order single/one, two/2, three/3 decides word_count and
\* the later ones are not evaluated; every other rule is evaluated whatever
\* the others did and, of two matching rules for one field, the later in the
\* rule order decides the field.
C2_RuleOrder ==
    Translated =>
        /\ LaterRuleWinsOutsideWordCount
        /\ EvaluatedUnconditionally
        /\ HasAny(OneWordPhrases) <=> Wrote("word_count_1")
        /\ (~HasAny(OneWordPhrases) /\ HasAny(TwoWordPhrases)) <=> Wrote("word_count_2")
        /\ (~HasAny(OneWordPhrases \cup TwoWordPhrases) /\ HasAny(ThreeWordPhrases))
               <=> Wrote("word_count_3")
        /\ IF HasAny(OneWordPhrases) THEN FieldIs(filters, "word_count", 1)
           ELSE IF HasAny(TwoWordPhrases) THEN FieldIs(filters, "word_count", 2)
           ELSE IF HasAny(ThreeWordPhrases) THEN FieldIs(filters, "word_count", 3)
           ELSE "word_count" \notin DOMAIN filters

\* a query with two conflicting rules for each of the four fields was translated
C2_Witness ==
    /\ Translated
    /\ \/ Has("single word") /\ Has("two word")
       \/ Has("longer than 10") /\ Has("at least 3")
       \/ Has("shorter than 0") /\ Has("at most 2")
       \/ Has("containing the letter z") /\ Has("last vowel")
    /\ Len(writes) >= 2

\* C3: the letter pattern writes contains_character only for a letter that
\* stands alone after the filler words, never for the first letter of a longer
\* word; for "palindromic strings that contain the first vowel" it does not
\* match, and 'a' is written by the "first vowel" phrase alone.
C3_LetterStandsAlone ==
    Translated =>
        /\ Wrote("letter_match") =>
               PatternLetter[FirstPatternPhrase] \in {"z", "x"}
        /\ query = "palindromic strings that contain the first vowel" =>
               /\ ~Wrote("letter_match")
               /\ writes = << <<"palindrome", "is_palindrome", TRUE>>,
                              <<"first_vowel", "contains_character", "a">> >>

\* C7: the validator reports a conflict exactly when min_length and
\* max_length are both present and min_length > max_length.
C7_ConflictIffMinAboveMax ==
    tpc = "validated" =>
        /\ conflict \in {None, ConflictMessage}
        /\ conflict = ConflictMessage <=>
               /\ {"min_length", "max_length"} \subseteq DOMAIN filters
               /\ ~(filters["min_length"] <= filters["max_length"])
        /\ (FieldIs(filters, "min_length", 2) /\ FieldIs(filters, "max_length", 2))
               => conflict = None
        /\ ("min_length" \notin DOMAIN filters \/ "max_length" \notin DOMAIN filters)
               => conflict = None

\* both bounds present and equal, validated without a conflict, next to the
\* other fields
C7_Witness ==
    /\ tpc = "validated"
    /\ source = "params"
    /\ DOMAIN filters = Fields
    /\ filters["min_length"] = filters["max_length"]
    /\ conflict = None

(***************************************************************************)
(* Properties of the analyzer (SpecAnalyzer).                              *)
(***************************************************************************)
SameLetter(c, d) ==
    \/ c = d
    \/ \E i \in 1..Len(LowerLetters) :
           {c, d} = {Char(LowerLetters, i), Char(UpperLetters, i)}

NonSpaces(s, lo, hi) == Cardinality({k \in lo..hi : Char(s, k) # " "})

\* the i-th non-space character from the left folds to the i-th from the right
MirrorsItself(s) ==
    \A i, j \in 1..Len(s) :
        ( /\ Char(s, i) # " "
          /\ Char(s, j) # " "
          /\ NonSpaces(s, 1, i - 1) = NonSpaces(s, j + 1, Len(s)) )
        => SameLetter(Char(s, i), Char(s, j))

\* C9: is_palindrome holds exactly when the string without its spaces, case
\* folded, reads the same backwards; punctuation and other whitespace take
\* part; length and unique_characters are those of the raw string.
C9_PalindromeNormalization ==
    apc = "analyzed" =>
        /\ props.is_palindrome <=> MirrorsItself(input)
        /\ props.length = Len(input)
        /\ props.unique_characters = Cardinality(Chars(input))
        /\ input \in {"racecar", "Race Car"} => props.is_palindrome
        /\ input = "race.car" => ~props.is_palindrome

\* a palindrome only up to spaces and case, and longer than its cleaned form
C9_Witness ==
    /\ apc = "analyzed"
    /\ input = "Race Car"
    /\ props.is_palindrome
    /\ props.length = 8
    /\ props.unique_characters = 7

RECURSIVE SumOver(_, _)
SumOver(f, D) ==
    IF D = {} THEN 0
    ELSE LET x == CHOOSE y \in D : TRUE IN f[x] + SumOver(f, D \ {x})

\* C10: character_frequency_map has one entry per distinct character of the
\* raw string, mapped to its number of occurrences; the counts add up to
\* length and the number of entries is unique_characters.
C10_FrequencyPartition ==
    apc = "analyzed" =>
        LET m == props.character_frequency_map IN
        /\ DOMAIN m = Chars(input)
        /\ \A c \in DOMAIN m : m[c] = Cardinality({i \in 1..Len(input) : Char(input, i) = c})
        /\ SumOver(m, DOMAIN m) = props.length
        /\ Cardinality(DOMAIN m) = props.unique_characters

\* a string with a repeated character next to another one
C10_Witness ==
    /\ apc = "analyzed"
    /\ input = "aba"
    /\ props.character_frequency_map["a"] = 2
    /\ props.character_frequency_map["b"] = 1

====
